---- MODULE Spec2Model ----
(***************************************************************************)
(* CNN.build of CNN_Keras/cnn/neural_network_prog.py as a state machine.   *)
(*                                                                         *)
(* pc is the source line the running call is about to execute (0 when no   *)
(* call is running).  A caller invokes build, the body runs line by line   *)
(* (Sequential(), fourteen model.add calls, the optional load_weights,     *)
(* return), and between calls the caller may save the weights of a model   *)
(* it owns to a file.  Model objects live in a heap keyed by object id so  *)
(* that aliasing between calls is expressible.                             *)
(*                                                                         *)
(* The framework side (random initialisation, load_weights, save_weights)  *)
(* is abstracted: a parameter tensor is one opaque value, and a weight     *)
(* file is compatible with a model when the parameter-shape signature it   *)
(* was saved from equals the model's.                                      *)
(***************************************************************************)
EXTENDS Integers, Sequences, FiniteSets, TLC

\* ---------------------------------------------------------------- bounds
\* Number of build calls that return a model in one behaviour.
MaxCalls == 2
\* total_classes ranges over 1..MaxClasses.
MaxClasses == 2

\* (width, height, depth) triples passed by the caller: MNIST 28x28x1 and a
\* triple whose three components are pairwise different.
InputGeometries == {<<28, 28, 1>>, <<32, 16, 3>>}
Classes == 1..MaxClasses
\* The single file-system path callers use for weight files.
Paths == {"weights.hdf5"}
\* Default value of the Saved_Weights_Path parameter.
None == "None"
\* Outcomes of the framework's random initialiser (one opaque value per draw).
Seeds == {"r1", "r2"}
\* Entry of a weight vector at a layer that has no parameters.
NoParam == "-"
\* File-system content of a path at which no file exists.
Absent == [exists |-> FALSE]
\* Errors of the framework's weight-loading routine.
NoError == "none"
FileNotFound == "OSError"
ShapeMismatch == "ValueError"
NoShape == <<>>
DataFormats == {"channels_first", "channels_last"}

VARIABLES
    fs,                 \* file system: path -> Absent or a weight file
    image_data_format,  \* the framework's process-wide default data format
    heap,               \* object id -> model object [layers, weights]
    returned,           \* models handed back to callers: <<[id, args], ...>>
    pc,                 \* source line about to run; 0 = no call running
    args,               \* arguments of the running (or last) call
    model,              \* local variable `model`: an object id, 0 if unset
    rng,                \* value the initialiser yields during this call
    loads,              \* number of load_weights calls made by this call
    loadErr,            \* error raised by load_weights in this call
    outcome             \* how the last call ended

vars == <<fs, image_data_format, heap, returned, pc, args, model, rng,
          loads, loadErr, outcome>>

\* ------------------------------------------------------------ the program
\* Source lines of build's statements, in execution order.
SequentialLine == 8
AddLines == <<11, 12, 13, 16, 17, 18, 21, 22, 23, 26, 27, 28, 31, 32>>
IfLine == 35
LoadLine == 36
ReturnLine == 37

Conv2D(filters, kernel, padding, input_shape) ==
    [kind |-> "Conv2D", filters |-> filters, kernel_size |-> kernel,
     padding |-> padding, input_shape |-> input_shape,
     data_format |-> "default"]

MaxPooling2D(pool_size, strides, data_format) ==
    [kind |-> "MaxPooling2D", pool_size |-> pool_size, strides |-> strides,
     data_format |-> data_format]

Activation(fn) == [kind |-> "Activation", activation |-> fn]

Flatten == [kind |-> "Flatten"]

Dense(units) == [kind |-> "Dense", units |-> units]

\* Line 11 with the input shape in the caller's argument order.
InputConv_WidthFirst(a) ==
    Conv2D(20, <<5, 5>>, "same", <<a.width, a.height, a.depth>>)

\* Line 11: the first convolution, which declares the input shape.
InputConv(a) ==
    Conv2D(20, <<5, 5>>, "same", <<a.depth, a.height, a.width>>)

\* Line 18 with the stride left at one.
SecondPool_StrideOne == MaxPooling2D(<<2, 2>>, <<1, 1>>, "channels_first")

\* Line 18: the second pooling layer.
SecondPool == MaxPooling2D(<<2, 2>>, <<2, 2>>, "channels_first")

\* Line 21 with the filter count of line 16 repeated.
ThirdConv_FiftyFilters == Conv2D(50, <<5, 5>>, "same", NoShape)

\* Line 21: the third convolution.
ThirdConv == Conv2D(100, <<5, 5>>, "same", NoShape)

\* Line 31 with the class count of the MNIST driver written in.
ClassDense_Ten(a) == Dense(10)

\* Line 31: the dense layer sized by the caller.
ClassDense(a) == Dense(a.total_classes)

\* The layer constructed by the model.add statement at a source line, for the
\* call arguments a.
LayerAtLine(line, a) ==
    CASE line = 11 -> InputConv(a)
      [] line = 12 -> Activation("relu")
      [] line = 13 -> MaxPooling2D(<<2, 2>>, <<2, 2>>, "channels_first")
      [] line = 16 -> Conv2D(50, <<5, 5>>, "same", NoShape)
      [] line = 17 -> Activation("relu")
      [] line = 18 -> SecondPool
      [] line = 21 -> ThirdConv
      [] line = 22 -> Activation("relu")
      [] line = 23 -> MaxPooling2D(<<2, 2>>, <<2, 2>>, "channels_first")
      [] line = 26 -> Flatten
      [] line = 27 -> Dense(500)
      [] line = 28 -> Activation("relu")
      [] line = 31 -> ClassDense(a)
      [] line = 32 -> Activation("softmax")

\* Position of a line among the model.add statements.
AddIndex(line) == CHOOSE i \in 1..Len(AddLines) : AddLines[i] = line

\* The order of the statements with the Flatten of line 26 left out.
LineAfterAdd_SkipFlatten(line) ==
    IF line = 23 THEN 27
    ELSE IF AddIndex(line) < Len(AddLines) THEN AddLines[AddIndex(line) + 1]
    ELSE IfLine

\* The statement that runs after the model.add at `line`.
LineAfterAdd(line) ==
    IF AddIndex(line) < Len(AddLines) THEN AddLines[AddIndex(line) + 1]
    ELSE IfLine

\* The load of line 36 made unconditional.
LoadWanted_Always(Saved_Weights_Path) == TRUE

\* The test of line 35 inverted.
LoadWanted_Inverted(Saved_Weights_Path) == Saved_Weights_Path = None

\* The test of line 35.
LoadWanted(Saved_Weights_Path) == Saved_Weights_Path # None

\* load_weights wrapped in a handler that swallows every error.
Catches_All(err) == TRUE

\* build has no try/except: no error of load_weights is caught.
Catches(err) == FALSE

\* -------------------------------------------------------- the framework
\* Sequential(): a new, empty model object.
EmptyModel == [layers |-> <<>>, weights |-> <<>>]

\* One container shared by all calls instead of a new one per call.
NewModelId_Shared(h) == 1

\* The object id Sequential() allocates: one no live object has.
NewModelId(h) == CHOOSE i \in 1..(Cardinality(DOMAIN h) + 1) : i \notin DOMAIN h

\* Layers that own parameter tensors.
Learnable(layer) == layer.kind \in {"Conv2D", "Dense"}

\* The layer's data format once the framework resolved an omitted one.
EffectiveFormat(layer, default) ==
    IF layer.data_format = "default" THEN default ELSE layer.data_format

\* model.add(layer): append the layer; a learnable layer gets freshly
\* initialised parameters.
AddLayer(m, layer, init) ==
    [layers |-> Append(m.layers, layer),
     weights |-> Append(m.weights, IF Learnable(layer) THEN init ELSE NoParam)]

\* What decides the shapes of a model's parameter tensors: the declared input
\* shape and the width of every learnable layer.
Width(layer) == IF layer.kind = "Conv2D" THEN layer.filters ELSE layer.units

RECURSIVE Widths(_)
Widths(layers) ==
    IF layers = <<>> THEN <<>>
    ELSE LET rest == Widths(Tail(layers))
         IN  IF Learnable(Head(layers)) THEN <<Width(Head(layers))>> \o rest
             ELSE rest

InputShapeOf(layers) ==
    IF layers # <<>> /\ layers[1].kind = "Conv2D" THEN layers[1].input_shape
    ELSE NoShape

ShapeSig(layers, default) ==
    [input_shape |-> InputShapeOf(layers),
     widths |-> Widths(layers),
     formats |-> [i \in {j \in 1..Len(layers) : layers[j].kind = "Conv2D"}
                    |-> EffectiveFormat(layers[i], default)]]

FileAt(files, path) == IF path \in DOMAIN files THEN files[path] ELSE Absent

\* model.load_weights(path): the error it raises, if any.
LoadError(m, file, default) ==
    IF ~file.exists THEN FileNotFound
    ELSE IF file.sig # ShapeSig(m.layers, default) THEN ShapeMismatch
    ELSE NoError

\* model.load_weights(path) on success: every learnable layer's parameters are
\* replaced by the stored ones, matched by position.
LoadWeights(m, file) ==
    [m EXCEPT !.weights =
        [i \in 1..Len(m.layers) |->
            IF Learnable(m.layers[i]) THEN file.vals[i] ELSE m.weights[i]]]

\* model.save_weights(path) as the caller may run it on a model it owns.
SavedFile(m, default) ==
    [exists |-> TRUE, sig |-> ShapeSig(m.layers, default), vals |-> m.weights]

Returned(id) == [kind |-> "return", id |-> id]
Raised(err) == [kind |-> "raise", err |-> err]
NoOutcome == [kind |-> "none"]

\* The argument frame before any call was made.
NoArgs ==
    [width |-> 0, height |-> 0, depth |-> 0, total_classes |-> 0,
     Saved_Weights_Path |-> None]

\* ------------------------------------------------------------------ Init
Init ==
    /\ fs = [p \in Paths |-> Absent]
    /\ image_data_format \in DataFormats
    /\ heap = <<>>
    /\ returned = <<>>
    /\ pc = 0
    /\ args = NoArgs
    /\ model = 0
    /\ rng = None
    /\ loads = 0
    /\ loadErr = NoError
    /\ outcome = NoOutcome

\* --------------------------------------------------------------- actions
\* A caller invokes CNN.build(width, height, depth, total_classes, path).
Call ==
    /\ pc = 0
    /\ Len(returned) < MaxCalls
    /\ \E g \in InputGeometries, c \in Classes, p \in Paths \cup {None} :
          args' = [width |-> g[1], height |-> g[2], depth |-> g[3],
                   total_classes |-> c, Saved_Weights_Path |-> p]
    /\ rng' \in Seeds
    /\ pc' = SequentialLine
    /\ model' = 0
    /\ loads' = 0
    /\ loadErr' = NoError
    /\ outcome' = NoOutcome
    /\ UNCHANGED <<fs, image_data_format, heap, returned>>

\* Line 8: model = Sequential()
NewSequential ==
    /\ pc = SequentialLine
    /\ LET id == NewModelId(heap)
       IN  /\ model' = id
           /\ heap' = [i \in DOMAIN heap \cup {id} |->
                          IF i = id THEN EmptyModel ELSE heap[i]]
    /\ pc' = AddLines[1]
    /\ UNCHANGED <<fs, image_data_format, returned, args, rng, loads,
                   loadErr, outcome>>

\* Lines 11..32: model.add(<layer>)
Add ==
    /\ \E i \in 1..Len(AddLines) : pc = AddLines[i]
    /\ heap' = [heap EXCEPT ![model] =
                   AddLayer(heap[model], LayerAtLine(pc, args), rng)]
    /\ pc' = LineAfterAdd(pc)
    /\ UNCHANGED <<fs, image_data_format, returned, args, model, rng, loads,
                   loadErr, outcome>>

\* Line 35: if Saved_Weights_Path is not None
TestPath ==
    /\ pc = IfLine
    /\ pc' = IF LoadWanted(args.Saved_Weights_Path) THEN LoadLine
             ELSE ReturnLine
    /\ UNCHANGED <<fs, image_data_format, heap, returned, args, model, rng,
                   loads, loadErr, outcome>>

\* Line 36: model.load_weights(Saved_Weights_Path) succeeds.
LoadOk ==
    /\ pc = LoadLine
    /\ LET file == FileAt(fs, args.Saved_Weights_Path)
       IN  /\ LoadError(heap[model], file, image_data_format) = NoError
           /\ heap' = [heap EXCEPT ![model] = LoadWeights(heap[model], file)]
    /\ loads' = loads + 1
    /\ pc' = ReturnLine
    /\ UNCHANGED <<fs, image_data_format, returned, args, model, rng,
                   loadErr, outcome>>

\* Line 36: model.load_weights(Saved_Weights_Path) raises.  The error leaves
\* build unless a handler catches it; the abandoned model object is garbage.
LoadFail ==
    /\ pc = LoadLine
    /\ LET file == FileAt(fs, args.Saved_Weights_Path)
           err == LoadError(heap[model], file, image_data_format)
       IN  /\ err # NoError
           /\ loadErr' = err
           /\ IF Catches(err)
              THEN /\ pc' = ReturnLine
                   /\ UNCHANGED <<heap, outcome, model>>
              ELSE /\ pc' = 0
                   /\ outcome' = Raised(err)
                   /\ heap' = [i \in DOMAIN heap \ {model} |-> heap[i]]
                   /\ model' = 0
    /\ loads' = loads + 1
    /\ UNCHANGED <<fs, image_data_format, returned, args, rng>>

\* Line 37: return model
Return ==
    /\ pc = ReturnLine
    /\ returned' = Append(returned, [id |-> model, args |-> args])
    /\ outcome' = Returned(model)
    /\ pc' = 0
    /\ model' = 0
    /\ UNCHANGED <<fs, image_data_format, heap, args, rng, loads, loadErr>>

\* Between calls, the owner of a returned model saves its weights.
SaveWeights ==
    /\ pc = 0
    /\ \E k \in 1..Len(returned), p \in Paths :
          fs' = [fs EXCEPT ![p] =
                    SavedFile(heap[returned[k].id], image_data_format)]
    /\ UNCHANGED <<image_data_format, heap, returned, pc, args, model, rng,
                   loads, loadErr, outcome>>

BuildStep == NewSequential \/ Add \/ TestPath \/ LoadOk \/ LoadFail \/ Return

Next == Call \/ NewSequential \/ Add \/ TestPath \/ LoadOk \/ LoadFail
        \/ Return \/ SaveWeights

Spec == Init /\ [][Next]_vars

\* ---------------------------------------------------------------- claims
RetModel(k) == heap[returned[k].id]
RetArgs(k) == returned[k].args
Rets == 1..Len(returned)
Kinds(layers) == [i \in 1..Len(layers) |-> layers[i].kind]
IsRelu(layer) == layer.kind = "Activation" /\ layer.activation = "relu"
IsSoftmax(layer) == layer.kind = "Activation" /\ layer.activation = "softmax"
SameGeometry(a, b) ==
    a.width = b.width /\ a.height = b.height /\ a.depth = b.depth
Convs(layers) == SelectSeq(layers, LAMBDA l : l.kind = "Conv2D")
Pools(layers) == SelectSeq(layers, LAMBDA l : l.kind = "MaxPooling2D")
DeclaresInputShape(layer) ==
    layer.kind = "Conv2D" /\ layer.input_shape # NoShape

FixedKinds ==
    <<"Conv2D", "Activation", "MaxPooling2D",
      "Conv2D", "Activation", "MaxPooling2D",
      "Conv2D", "Activation", "MaxPooling2D",
      "Flatten", "Dense", "Activation", "Dense", "Activation">>

\* C1 (as stated): every model build returns holds exactly 11 layer
\* descriptors.
C1_ElevenLayers == \A k \in Rets : Len(RetModel(k).layers) = 11

\* C1 (amended): every model build returns holds exactly 14 layer descriptors,
\* one per model.add, in the fixed order conv, relu, max-pool (three times),
\* flatten, dense of 500 units, relu, dense, softmax, whatever the arguments.
C1_FourteenLayersFixedOrder ==
    \A k \in Rets :
        LET L == RetModel(k).layers
        IN  /\ Len(L) = 14
            /\ Kinds(L) = FixedKinds
            /\ \A i \in {2, 5, 8, 12} : IsRelu(L[i])
            /\ L[11].units = 500
            /\ IsSoftmax(L[14])

C1_Witness ==
    /\ Len(returned) = 2
    /\ ~SameGeometry(RetArgs(1), RetArgs(2))
    /\ RetArgs(1).total_classes # RetArgs(2).total_classes
    /\ Len(RetModel(1).layers) = 14
    /\ Len(RetModel(2).layers) = 14

\* C2: the last dense layer has exactly total_classes units, softmax follows
\* it as the last layer, and no other layer differs between two models built
\* for the same geometry with different total_classes.
C2_LastDenseIsTotalClasses ==
    /\ \A k \in Rets :
          LET L == RetModel(k).layers
          IN  /\ Len(L) = 14
              /\ L[13].kind = "Dense"
              /\ L[13].units = RetArgs(k).total_classes
              /\ IsSoftmax(L[Len(L)])
              /\ \A i \in 1..Len(L) : L[i].kind = "Dense" => i <= 13
    /\ \A j, k \in Rets :
          SameGeometry(RetArgs(j), RetArgs(k)) =>
              \A i \in 1..14 :
                  (RetModel(j).layers[i] # RetModel(k).layers[i]) <=>
                  (i = 13 /\ RetArgs(j).total_classes
                               # RetArgs(k).total_classes)

C2_Witness ==
    /\ Len(returned) = 2
    /\ SameGeometry(RetArgs(1), RetArgs(2))
    /\ RetArgs(1).total_classes = 1
    /\ RetArgs(2).total_classes = 2
    /\ RetModel(1).layers[13].units = 1
    /\ RetModel(2).layers[13].units = 2

\* C3: the first layer is a convolution whose declared input shape is
\* (depth, height, width), and no other layer declares an input shape.
C3_InputShapeDepthHeightWidth ==
    \A k \in Rets :
        LET L == RetModel(k).layers
            a == RetArgs(k)
        IN  /\ L[1].kind = "Conv2D"
            /\ L[1].input_shape = <<a.depth, a.height, a.width>>
            /\ \A i \in 2..Len(L) : ~DeclaresInputShape(L[i])

C3_Witness ==
    \E k \in Rets :
        LET a == RetArgs(k)
            shape == RetModel(k).layers[1].input_shape
        IN  /\ a.width # a.depth /\ a.width # a.height /\ a.height # a.depth
            /\ shape = <<a.depth, a.height, a.width>>
            /\ shape # <<a.width, a.height, a.depth>>
            /\ shape # <<a.height, a.width, a.depth>>

\* C4: once load_weights has raised in a call, the call has ended with exactly
\* that error and has returned no model.
C4_LoadErrorPropagates ==
    loadErr # NoError =>
        /\ pc = 0
        /\ outcome = Raised(loadErr)
        /\ model = 0
        /\ loads = 1
        /\ args.Saved_Weights_Path # None

C4_Witness ==
    /\ loadErr = ShapeMismatch
    /\ outcome = Raised(ShapeMismatch)
    /\ FileAt(fs, args.Saved_Weights_Path).exists

\* C5: load_weights runs only after all fourteen layers are appended, and a
\* call given a path reaches its return with exactly one load done and every
\* learnable layer holding the value stored in the file.
C5_LoadedWeightsEqualStored ==
    /\ pc = LoadLine => Len(heap[model].layers) = 14 /\ loads = 0
    /\ (pc = ReturnLine /\ args.Saved_Weights_Path # None) =>
          LET m == heap[model]
              file == FileAt(fs, args.Saved_Weights_Path)
          IN  /\ loads = 1
              /\ Len(m.layers) = 14
              /\ file.exists
              /\ \A i \in 1..14 :
                    Learnable(m.layers[i]) => m.weights[i] = file.vals[i]
              /\ \A k \in Rets :
                    file = SavedFile(RetModel(k), image_data_format) =>
                        m.weights = RetModel(k).weights

C5_Witness ==
    /\ pc = ReturnLine
    /\ args.Saved_Weights_Path # None
    /\ loads = 1
    /\ \E k \in Rets :
          /\ fs[args.Saved_Weights_Path]
                = SavedFile(RetModel(k), image_data_format)
          /\ RetArgs(k).Saved_Weights_Path = None
          /\ heap[model].weights = RetModel(k).weights
          /\ heap[model].weights[1] # rng

\* State part of C6: a call without a path makes no load_weights call, raises
\* no load error and reaches its return with the initialiser's values.
C6_NoPathInvariant ==
    args.Saved_Weights_Path = None =>
        /\ loads = 0
        /\ loadErr = NoError
        /\ pc # LoadLine
        /\ pc = ReturnLine =>
              \A i \in 1..Len(heap[model].layers) :
                  heap[model].weights[i] =
                      IF Learnable(heap[model].layers[i]) THEN rng
                      ELSE NoParam

\* C6: a call without a path makes no load_weights call and keeps the
\* initialiser's values, and no step of build, with or without a path, changes
\* the file system.
C6_NoPathNoLoadNoWrite ==
    /\ []C6_NoPathInvariant
    /\ [][(pc # 0 \/ pc' # 0) => fs' = fs]_vars

C6_Witness ==
    /\ pc = ReturnLine
    /\ args.Saved_Weights_Path = None
    /\ \E p \in Paths : fs[p].exists /\ fs[p].vals[1] # rng
    /\ heap[model].weights[1] = rng

\* C7: exactly three convolutions, with 20, 50 and 100 filters in order of
\* appearance, each with a 5x5 kernel and same padding.
C7_ThreeConvolutions ==
    \A k \in Rets :
        LET C == Convs(RetModel(k).layers)
        IN  /\ Len(C) = 3
            /\ [i \in 1..3 |-> C[i].filters] = <<20, 50, 100>>
            /\ \A i \in 1..3 :
                  C[i].kernel_size = <<5, 5>> /\ C[i].padding = "same"

C7_Witness ==
    /\ Len(returned) = 2
    /\ RetArgs(1) # RetArgs(2)
    /\ RetModel(1).layers[7].filters = 100
    /\ RetModel(2).layers[7].filters = 100

\* C8: exactly three pooling layers, each a 2x2 max-pooling with stride 2 on
\* both axes, each right after the relu that follows a convolution.
C8_ThreePoolings ==
    \A k \in Rets :
        LET L == RetModel(k).layers
        IN  /\ Len(Pools(L)) = 3
            /\ \A i \in 1..Len(L) :
                  L[i].kind = "MaxPooling2D" =>
                      /\ L[i].pool_size = <<2, 2>>
                      /\ L[i].strides = <<2, 2>>
                      /\ i > 2
                      /\ IsRelu(L[i - 1])
                      /\ L[i - 2].kind = "Conv2D"

C8_Witness ==
    \E k \in Rets :
        /\ RetArgs(k).Saved_Weights_Path # None
        /\ Len(Pools(RetModel(k).layers)) = 3
        /\ RetModel(k).layers[9].kind = "MaxPooling2D"

\* C9: in every returned model each pooling layer has the channel ordering of
\* the convolution before it, and all convolutions and poolings are
\* channel-first.
C9_ChannelFirstEverywhere ==
    \A k \in Rets :
        LET L == RetModel(k).layers
        IN  \A i \in 1..Len(L) :
                /\ L[i].kind \in {"Conv2D", "MaxPooling2D"} =>
                      EffectiveFormat(L[i], image_data_format)
                          = "channels_first"
                /\ L[i].kind = "MaxPooling2D" =>
                      EffectiveFormat(L[i], image_data_format)
                          = EffectiveFormat(L[i - 2], image_data_format)

\* State part of C10: returned models are distinct objects, a call starts from
\* a fresh empty container that is none of them, and models returned for equal
\* (width, height, depth, total_classes) have equal topologies.
C10_Independent ==
    /\ \A j, k \in Rets : j # k => returned[j].id # returned[k].id
    /\ \A j, k \in Rets :
          (SameGeometry(RetArgs(j), RetArgs(k))
           /\ RetArgs(j).total_classes = RetArgs(k).total_classes)
              => RetModel(j).layers = RetModel(k).layers
    /\ pc = AddLines[1] =>
          /\ heap[model] = EmptyModel
          /\ \A k \in Rets : returned[k].id # model

\* C10: returned models are distinct objects, a call starts from a fresh empty
\* container, models returned for equal (width, height, depth, total_classes)
\* have equal topologies, and no step changes a model already returned.
C10_IndependentCalls ==
    /\ []C10_Independent
    /\ [][\A k \in Rets :
             /\ k \in 1..Len(returned')
             /\ returned'[k] = returned[k]
             /\ returned[k].id \in DOMAIN heap'
             /\ heap'[returned[k].id] = heap[returned[k].id]]_vars

C10_Witness ==
    /\ Len(returned) = 2
    /\ SameGeometry(RetArgs(1), RetArgs(2))
    /\ RetArgs(1).total_classes = RetArgs(2).total_classes
    /\ RetModel(1).weights # RetModel(2).weights
    /\ RetModel(1).layers = RetModel(2).layers
    /\ returned[1].id # returned[2].id

====
